---- MODULE Spec2Model ----
(***************************************************************************)
(* Model of the Google Docs "Document Tools" script                        *)
(* (src/GoogleDocs Scripts/DocumentTools.js, v2.1.0 section).              *)
(*                                                                         *)
(* A JavaScript string is a sequence of UTF-16 code units.  A code unit is *)
(* written here as a TLA+ string naming it: "a", "A", " ", ... and, for    *)
(* the units that are not ASCII,                                           *)
(*    "ESZETT"  U+00DF  latin small letter sharp s                         *)
(*    "IDOT"    U+0130  latin capital letter I with dot above              *)
(*    "CDOT"    U+0307  combining dot above                                *)
(*    "eacute"  U+00E9, "EACUTE" U+00C9                                    *)
(*    "EMDASH"  U+2014                                                     *)
(*    "TAB"     U+0009                                                     *)
(***************************************************************************)
EXTENDS Integers, Sequences, FiniteSets, TLC

\* ------------------------------------------------------------------------
\* Bounds of the model
\* ------------------------------------------------------------------------

\* longest element text of the case-transform specification
MaxLen == 3

\* longest element text of the title-case specification
MaxTitleLen == 6

\* most pieces (words and separators) of an element text of the title-case
\* specification on words
MaxPieces == 6

\* most attribute runs of the text element that checkLinks walks
MaxRuns == 2

\* most runs of checkLinks on one document
MaxChecks == 2

\* most children of the body that fixDocumentFormatting walks
MaxChildren == 2

\* most runs of fixDocumentFormatting on one document
MaxFormats == 2

\* ------------------------------------------------------------------------
\* Characters
\* ------------------------------------------------------------------------

\* the code units the model's input texts are drawn from
Alphabet ==
    {"a", "A", "1", " ", "-", "'", ".", "ESZETT", "IDOT", "eacute"}

\* the code units of the title-case inputs
TitleAlphabet ==
    {"a", "A", "b", " ", ":", "-"}

\* the ASCII letters, a lower-case letter and its upper-case form at the same index
LowerLetters ==
    <<"a", "b", "c", "d", "e", "f", "g", "h", "i", "j", "k", "l", "m",
      "n", "o", "p", "q", "r", "s", "t", "u", "v", "w", "x", "y", "z">>

UpperLetters ==
    <<"A", "B", "C", "D", "E", "F", "G", "H", "I", "J", "K", "L", "M",
      "N", "O", "P", "Q", "R", "S", "T", "U", "V", "W", "X", "Y", "Z">>

\* the upper-case form of each lower-case ASCII letter
UpperOf ==
    [c \in {LowerLetters[k] : k \in 1..26} |->
        UpperLetters[CHOOSE k \in 1..26 : LowerLetters[k] = c]]

\* the lower-case form of each upper-case ASCII letter
LowerOf ==
    [c \in {UpperLetters[k] : k \in 1..26} |->
        LowerLetters[CHOOSE k \in 1..26 : UpperLetters[k] = c]]

IsLowerLetter(c) ==
    c \in DOMAIN UpperOf

IsUpperLetter(c) ==
    c \in DOMAIN LowerOf

\* regex \w (no unicode flag): [A-Za-z0-9_]
IsWordChar(c) ==
    IsLowerLetter(c) \/ IsUpperLetter(c) \/ c \in {"0", "1", "_"}

\* regex \s
IsWhitespace(c) ==
    c \in {" ", "TAB"}

\* a case mapping that flips the case of an ASCII letter instead of raising it
UpperCharFlipping(c) ==
    IF IsLowerLetter(c) THEN <<UpperOf[c]>>
    ELSE IF IsUpperLetter(c) THEN <<LowerOf[c]>>
    ELSE IF c = "ESZETT" THEN <<"S", "S">>
    ELSE <<c>>

\* String.prototype.toUpperCase of one code unit (Unicode full case mapping:
\* the result may hold two units)
UpperChar(c) ==
    IF IsLowerLetter(c) THEN <<UpperOf[c]>>
    ELSE IF c = "eacute" THEN <<"EACUTE">>
    ELSE IF c = "ESZETT" THEN <<"S", "S">>
    ELSE <<c>>

\* a case mapping that flips the case of an ASCII letter instead of lowering it
LowerCharFlipping(c) ==
    IF IsUpperLetter(c) THEN <<LowerOf[c]>>
    ELSE IF IsLowerLetter(c) THEN <<UpperOf[c]>>
    ELSE IF c = "IDOT" THEN <<"i", "CDOT">>
    ELSE <<c>>

\* String.prototype.toLowerCase of one code unit
LowerChar(c) ==
    IF IsUpperLetter(c) THEN <<LowerOf[c]>>
    ELSE IF c = "EACUTE" THEN <<"eacute">>
    ELSE IF c = "IDOT" THEN <<"i", "CDOT">>
    ELSE <<c>>

RECURSIVE ToUpperCase(_)
\* text.toUpperCase(): the upper-case forms of the characters, concatenated
ToUpperCase(s) ==
    IF s = <<>> THEN <<>> ELSE UpperChar(Head(s)) \o ToUpperCase(Tail(s))

\* a toLowerCase that returns its argument
ToLowerCaseKeeping(s) ==
    s

RECURSIVE ToLowerCase(_)
\* text.toLowerCase(): the lower-case forms of the characters, concatenated
ToLowerCase(s) ==
    IF s = <<>> THEN <<>> ELSE LowerChar(Head(s)) \o ToLowerCase(Tail(s))

\* s.slice(k) / s.substring(k), k counted from 0
Slice(s, k) ==
    SubSeq(s, k + 1, Len(s))

\* s.substring(from, to), offsets counted from 0, `to` exclusive
Substring(s, from, to) ==
    SubSeq(s, from + 1, to)

\* s.charAt(j), j counted from 0: the empty string outside the string
CharAt(s, j) ==
    IF j >= 0 /\ j < Len(s) THEN <<s[j + 1]>> ELSE <<>>

\* ------------------------------------------------------------------------
\* The transform functions handed to processSelectedText
\* ------------------------------------------------------------------------

\* text => text.toLowerCase()
LowerCaseFn(t) ==
    ToLowerCase(t)

\* text => text.toUpperCase()
UpperCaseFn(t) ==
    ToUpperCase(t)

\* regex \b before position i (1-based) of s, i <= Len(s)
WordBoundaryBefore(s, i) ==
    IsWordChar(s[i]) # (i > 1 /\ IsWordChar(s[i - 1]))

RECURSIVE InitialCapsFrom(_, _)
InitialCapsFrom(s, i) ==
    IF i > Len(s) THEN <<>>
    ELSE (IF WordBoundaryBefore(s, i) /\ IsWordChar(s[i])
             THEN UpperChar(s[i]) ELSE <<s[i]>>)
         \o InitialCapsFrom(s, i + 1)

\* an initial caps that takes words to be separated by whitespace only
InitialCapsFnOnSpaces(t) ==
    [i \in 1..Len(t) |->
        IF IsWordChar(t[i]) /\ (i = 1 \/ IsWhitespace(t[i - 1]))
           THEN UpperChar(t[i])[1] ELSE t[i]]

\* text => text.replace(/\b\w/g, char => char.toUpperCase())
InitialCapsFn(t) ==
    InitialCapsFrom(t, 1)

\* a sentence case that leaves the rest of the text as it was
SentenceCaseFnKeepingRest(t) ==
    IF Len(t) > 0 THEN ToUpperCase(CharAt(t, 0)) \o Slice(t, 1) ELSE t

\* text => lower.charAt(0).toUpperCase() + lower.slice(1)
SentenceCaseFn(t) ==
    LET lower == ToLowerCase(t)
    IN  IF Len(lower) > 0
           THEN ToUpperCase(CharAt(lower, 0)) \o Slice(lower, 1)
           ELSE lower

\* TITLE_CASE_LOWERCASE_WORDS
TITLE_CASE_LOWERCASE_WORDS ==
    { <<"a">>, <<"a", "n">>, <<"t", "h", "e">>,
      <<"a", "n", "d">>, <<"b", "u", "t">>, <<"o", "r">>, <<"n", "o", "r">>,
      <<"f", "o", "r">>, <<"s", "o">>, <<"y", "e", "t">>,
      <<"a", "s">>, <<"a", "t">>, <<"b", "y">>, <<"f", "r", "o", "m">>,
      <<"i", "n">>, <<"i", "n", "t", "o">>, <<"o", "f">>, <<"o", "f", "f">>,
      <<"o", "n">>, <<"o", "n", "t", "o">>, <<"o", "u", "t">>,
      <<"o", "v", "e", "r">>, <<"t", "o">>, <<"u", "p">>,
      <<"w", "i", "t", "h">>, <<"v", "i", "a">> }

\* the units the split pattern isolates one by one: [-—:]
IsDashOrColon(c) ==
    c \in {"-", "EMDASH", ":"}

RECURSIVE WhitespaceEnd(_, _)
\* the last index of the whitespace run of s that starts at index i (\s+ is greedy)
WhitespaceEnd(s, i) ==
    IF i < Len(s) /\ IsWhitespace(s[i + 1]) THEN WhitespaceEnd(s, i + 1) ELSE i

RECURSIVE SplitFrom(_, _, _, _)
\* the scan of split: cur is the piece collected since the last separator,
\* acc the tokens found so far
SplitFrom(s, i, cur, acc) ==
    IF i > Len(s) THEN Append(acc, cur)
    ELSE IF IsDashOrColon(s[i])
            THEN SplitFrom(s, i + 1, <<>>, acc \o <<cur, <<s[i]>>>>)
    ELSE IF IsWhitespace(s[i])
            THEN LET j == WhitespaceEnd(s, i)
                 IN  SplitFrom(s, j + 1, <<>>, acc \o <<cur, SubSeq(s, i, j)>>)
    ELSE SplitFrom(s, i + 1, Append(cur, s[i]), acc)

\* text.split(/(\s+|[-—:])/): pieces and the captured separators, in order;
\* the piece between two adjacent separators, before a leading one or after a
\* trailing one is the empty string
Split(t) ==
    SplitFrom(t, 1, <<>>, <<>>)

\* /^\s+$/.test(w)
IsWhitespaceToken(w) ==
    Len(w) > 0 /\ \A k \in 1..Len(w) : IsWhitespace(w[k])

\* /^\s+$/.test(w) || w === '-' || w === '—' || w === ':'
IsSeparatorToken(w) ==
    IsWhitespaceToken(w) \/ w = <<"-">> \/ w = <<"EMDASH">> \/ w = <<":">>

\* the index of the first and of the last word character of a token that has one
FirstWordIndex(w) ==
    CHOOSE k \in 1..Len(w) : IsWordChar(w[k]) /\ \A x \in 1..(k - 1) : ~IsWordChar(w[x])

LastWordIndex(w) ==
    CHOOSE k \in 1..Len(w) : IsWordChar(w[k]) /\ \A x \in (k + 1)..Len(w) : ~IsWordChar(w[x])

\* word.match(/^(\W*)(\w+)(\W*)$/) succeeds: the word characters of the token
\* are one non-empty run
Matches(w) ==
    /\ \E k \in 1..Len(w) : IsWordChar(w[k])
    /\ \A k \in FirstWordIndex(w)..LastWordIndex(w) : IsWordChar(w[k])

\* the groups of the match: [, prefix, actualWord, suffix]
MatchPrefix(w) ==
    SubSeq(w, 1, FirstWordIndex(w) - 1)

MatchWord(w) ==
    SubSeq(w, FirstWordIndex(w), LastWordIndex(w))

MatchSuffix(w) ==
    SubSeq(w, LastWordIndex(w) + 1, Len(w))

\* words.slice(0, index).every(separator), index counted from 1 here
IsFirstWord(words, index) ==
    \A k \in 1..(index - 1) : IsSeparatorToken(words[k])

\* words.slice(index + 1).every(separator)
IsLastWord(words, index) ==
    \A k \in (index + 1)..Len(words) : IsSeparatorToken(words[k])

\* a shouldCapitalize without the last-word rule
ShouldCapitalizeNoLast(words, index, afterColonOrDash) ==
    \/ IsFirstWord(words, index)
    \/ afterColonOrDash
    \/ ToLowerCase(MatchWord(words[index])) \notin TITLE_CASE_LOWERCASE_WORDS

\* shouldCapitalize of the map callback
ShouldCapitalize(words, index, afterColonOrDash) ==
    \/ IsFirstWord(words, index)
    \/ IsLastWord(words, index)
    \/ afterColonOrDash
    \/ ToLowerCase(MatchWord(words[index])) \notin TITLE_CASE_LOWERCASE_WORDS

\* the value the map callback returns for words[index]
TitleCaseWord(words, index, afterColonOrDash) ==
    LET word == words[index]
    IN  IF IsWhitespaceToken(word) \/ word = <<"-">> \/ word = <<"EMDASH">>
           THEN word
        ELSE IF word = <<":">> THEN word
        ELSE IF ~Matches(word) THEN word
        ELSE LET lowerWord == ToLowerCase(MatchWord(word))
                 capitalizedWord ==
                     IF ShouldCapitalize(words, index, afterColonOrDash)
                        THEN ToUpperCase(CharAt(lowerWord, 0)) \o Slice(lowerWord, 1)
                        ELSE lowerWord
             IN  MatchPrefix(word) \o capitalizedWord \o MatchSuffix(word)

\* a flag that whitespace after the colon clears
AfterColonOrDashNextClearedBySpace(words, index, afterColonOrDash) ==
    LET word == words[index]
    IN  IF word = <<":">> THEN TRUE
        ELSE IF word = <<>> \/ word = <<"-">> \/ word = <<"EMDASH">> THEN afterColonOrDash
        ELSE FALSE

\* afterColonOrDash after the map callback has run for words[index]
AfterColonOrDashNext(words, index, afterColonOrDash) ==
    LET word == words[index]
    IN  IF IsWhitespaceToken(word) \/ word = <<"-">> \/ word = <<"EMDASH">>
           THEN afterColonOrDash
        ELSE IF word = <<":">> THEN TRUE
        ELSE IF ~Matches(word) THEN afterColonOrDash
        ELSE IF afterColonOrDash /\ (\E k \in 1..Len(word) : IsWordChar(word[k])) THEN FALSE
        ELSE afterColonOrDash

RECURSIVE TitleCaseFrom(_, _, _)
\* words.map(...).join('') from words[index] on
TitleCaseFrom(words, index, afterColonOrDash) ==
    IF index > Len(words) THEN <<>>
    ELSE TitleCaseWord(words, index, afterColonOrDash)
         \o TitleCaseFrom(words, index + 1,
                          AfterColonOrDashNext(words, index, afterColonOrDash))

\* the transform of convertToTitleCase
TitleCaseFn(t) ==
    TitleCaseFrom(Split(t), 1, FALSE)

\* ------------------------------------------------------------------------
\* processSelectedText
\* ------------------------------------------------------------------------

\* an edit that replaces the whole range by the transformed text at once
EditLoopReplacing(txt, selected, transformed, start, last, j) ==
    SubSeq(txt, 1, start) \o transformed \o SubSeq(txt, start + last + 2, Len(txt))

RECURSIVE EditLoop(_, _, _, _, _, _)
\* the loop "for (j = 0; j <= endOffset - startOffset; j++)" from j on: where the
\* two characters differ, text.deleteText(pos, pos) then text.insertText(pos, newChar)
EditLoop(txt, selected, transformed, start, last, j) ==
    IF j > last THEN txt
    ELSE LET pos == start + j
             originalChar == CharAt(selected, j)
             newChar == CharAt(transformed, j)
         IN  IF originalChar # newChar
                THEN EditLoop(SubSeq(txt, 1, pos) \o newChar \o SubSeq(txt, pos + 2, Len(txt)),
                              selected, transformed, start, last, j + 1)
                ELSE EditLoop(txt, selected, transformed, start, last, j + 1)

\* startOffset of the range element
StartOffsetOf(txt, isPartial, selStart) ==
    IF isPartial THEN selStart ELSE 0

\* endOffset (inclusive) of the range element
EndOffsetOf(txt, isPartial, selEnd) ==
    IF isPartial THEN selEnd ELSE Len(txt) - 1

\* ------------------------------------------------------------------------
\* Link checking: the text element and its attributes
\* ------------------------------------------------------------------------

\* COLORS
BROKEN_LINK == "#FF0000"
APPLE_LINK == "#FFFF00"
INVALID_LINK == "#FFA500"
MISSING_LINK == "#DDA0DD"
LINK_BLUE == "#1155CC"

\* getLinkUrl(offset) of a character that has no link: null, written as a
\* string of one unit that no URL holds
Null == <<"null">>

\* getBackgroundColor(offset) of a character that has none: null
NoColor == "null"

\* VALID_NON_HTTP_PROTOCOLS
VALID_NON_HTTP_PROTOCOLS ==
    << <<"m", "a", "i", "l", "t", "o", ":">>,
       <<"t", "e", "l", ":">>,
       <<"s", "m", "s", ":">>,
       <<"f", "t", "p", ":">>,
       <<"s", "f", "t", "p", ":">>,
       <<"f", "i", "l", "e", ":">> >>

\* s.startsWith(p)
StartsWith(s, p) ==
    Len(s) >= Len(p) /\ SubSeq(s, 1, Len(p)) = p

\* s.includes(p)
Includes(s, p) ==
    \E i \in 1..(Len(s) - Len(p) + 1) : SubSeq(s, i, i + Len(p) - 1) = p

\* A text element is a sequence of characters with their attributes:
\* [ch, url, underline, fg, bg, bold]; offsets into it count from 0.
AttributesAt(el, offset) ==
    [url |-> el[offset + 1].url, underline |-> el[offset + 1].underline,
     fg |-> el[offset + 1].fg, bg |-> el[offset + 1].bg, bold |-> el[offset + 1].bold]

\* element.getText()
GetText(el) ==
    [i \in 1..Len(el) |-> el[i].ch]

\* text.getTextAttributeIndices(): the offsets where a run of equal attributes
\* starts, in increasing order
RECURSIVE AttributeIndicesFrom(_, _)
AttributeIndicesFrom(el, offset) ==
    IF offset >= Len(el) THEN <<>>
    ELSE (IF offset = 0 \/ AttributesAt(el, offset) # AttributesAt(el, offset - 1)
             THEN <<offset>> ELSE <<>>)
         \o AttributeIndicesFrom(el, offset + 1)

GetTextAttributeIndices(el) ==
    AttributeIndicesFrom(el, 0)

\* the end (exclusive) of the run that starts at indices[i]
RunEnd(el, indices, i) ==
    IF i + 1 <= Len(indices) THEN indices[i + 1] ELSE Len(el)

\* element.setLinkUrl / setUnderline / setForegroundColor / setBackgroundColor
\* (startOffset, endOffsetInclusive, value)
SetLinkUrl(el, from, to, v) ==
    [i \in 1..Len(el) |-> IF i - 1 >= from /\ i - 1 <= to THEN [el[i] EXCEPT !.url = v] ELSE el[i]]

\* a setUnderline that leaves the element as it is
SetUnderlineIgnored(el, from, to, v) ==
    el

SetUnderline(el, from, to, v) ==
    [i \in 1..Len(el) |-> IF i - 1 >= from /\ i - 1 <= to THEN [el[i] EXCEPT !.underline = v] ELSE el[i]]

SetForegroundColor(el, from, to, v) ==
    [i \in 1..Len(el) |-> IF i - 1 >= from /\ i - 1 <= to THEN [el[i] EXCEPT !.fg = v] ELSE el[i]]

SetBackgroundColor(el, from, to, v) ==
    [i \in 1..Len(el) |-> IF i - 1 >= from /\ i - 1 <= to THEN [el[i] EXCEPT !.bg = v] ELSE el[i]]

RECURSIVE ExtractLinksFrom(_, _, _)
\* the loop of extractLinks over the attribute runs of the text element
ExtractLinksFrom(el, indices, i) ==
    IF i > Len(indices) THEN <<>>
    ELSE LET startOffset == indices[i]
             endOffset == RunEnd(el, indices, i)
             url == el[startOffset + 1].url
         IN  (IF url # Null /\ url # <<>>
                 THEN << [url |-> url, startOffset |-> startOffset, endOffset |-> endOffset] >>
                 ELSE <<>>)
             \o ExtractLinksFrom(el, indices, i + 1)

\* extractLinks(element, links) on the text element
ExtractLinks(el) ==
    ExtractLinksFrom(el, GetTextAttributeIndices(el), 1)

\* a test of the run's text that does not trim it
HasAnyCharacter(el, startOffset, endOffset) ==
    endOffset > startOffset

\* textString.substring(startOffset, endOffset).trim().length > 0
HasNonWhitespace(el, startOffset, endOffset) ==
    \E i \in (startOffset + 1)..endOffset : ~IsWhitespace(el[i].ch)

RECURSIVE ExtractUnderlinedFrom(_, _, _)
\* the loop of extractUnderlinedText over the attribute runs
ExtractUnderlinedFrom(el, indices, i) ==
    IF i > Len(indices) THEN <<>>
    ELSE LET startOffset == indices[i]
             endOffset == RunEnd(el, indices, i)
             isUnderlined == el[startOffset + 1].underline
             hasLink == el[startOffset + 1].url # Null
         IN  (IF isUnderlined /\ ~hasLink /\ HasNonWhitespace(el, startOffset, endOffset)
                 THEN << [startOffset |-> startOffset, endOffset |-> endOffset] >>
                 ELSE <<>>)
             \o ExtractUnderlinedFrom(el, indices, i + 1)

\* extractUnderlinedText(element, underlinedText) on the text element
ExtractUnderlinedText(el) ==
    ExtractUnderlinedFrom(el, GetTextAttributeIndices(el), 1)

RECURSIVE LeadingSpacesAndTabs(_, _)
\* a trimStart that takes a tab for a space
LeadingSpacesAndTabs(linkedText, trimStart) ==
    IF trimStart < Len(linkedText) /\ linkedText[trimStart + 1] \in {" ", "TAB"}
       THEN LeadingSpacesAndTabs(linkedText, trimStart + 1) ELSE trimStart

RECURSIVE LeadingSpaces(_, _)
\* trimStart of trimLinkSpaces: the number of leading ' ' of linkedText
LeadingSpaces(linkedText, trimStart) ==
    IF trimStart < Len(linkedText) /\ linkedText[trimStart + 1] = " "
       THEN LeadingSpaces(linkedText, trimStart + 1) ELSE trimStart

RECURSIVE TrailingSpacesEnd(_, _, _)
\* trimEnd of trimLinkSpaces
TrailingSpacesEnd(linkedText, trimStart, trimEnd) ==
    IF trimEnd > trimStart /\ linkedText[trimEnd] = " "
       THEN TrailingSpacesEnd(linkedText, trimStart, trimEnd - 1) ELSE trimEnd

\* trimLinkSpaces(link): [el: the element after the call, link: the link object
\* after the call, spacesTrimmed: the flag returned]
TrimLinkSpaces(el, link) ==
    LET startOffset == link.startOffset
        endOffset == link.endOffset
        linkedText == Substring(GetText(el), startOffset, endOffset)
        trimStart == LeadingSpaces(linkedText, 0)
        trimEnd == TrailingSpacesEnd(linkedText, trimStart, Len(linkedText))
        newStartOffset == startOffset + trimStart
        newEndOffset == startOffset + trimEnd
        unlinked == SetLinkUrl(el, startOffset, endOffset - 1, Null)
        leading == IF trimStart > 0
                      THEN SetUnderline(unlinked, startOffset, newStartOffset - 1, FALSE)
                      ELSE unlinked
        trailing == IF trimEnd < Len(linkedText)
                       THEN SetUnderline(leading, newEndOffset, endOffset - 1, FALSE)
                       ELSE leading
    IN  IF trimStart = 0 /\ trimEnd = Len(linkedText)
           THEN [el |-> el, link |-> link, spacesTrimmed |-> FALSE]
        ELSE IF newStartOffset >= newEndOffset
           THEN [el |-> el, link |-> link, spacesTrimmed |-> FALSE]
        ELSE [el |-> SetLinkUrl(trailing, newStartOffset, newEndOffset - 1, link.url),
              link |-> [link EXCEPT !.startOffset = newStartOffset,
                                    !.endOffset = newEndOffset],
              spacesTrimmed |-> TRUE]

\* Math.floor((startOffset + endOffset) / 2)
MidPoint(startOffset, endOffset) ==
    (startOffset + endOffset) \div 2

\* a checkpoint loop that looks at the colour only
NeedsLinkFormattingByColor(el, startOffset, endOffset) ==
    \E pos \in {startOffset, MidPoint(startOffset, endOffset), endOffset - 1} :
        /\ pos >= startOffset /\ pos < endOffset
        /\ el[pos + 1].fg \notin {LINK_BLUE, "#1155cc", "#1155CC"}

\* the result of the checkpoint loop of applyLinkFormatting
NeedsLinkFormatting(el, startOffset, endOffset) ==
    \E pos \in {startOffset, MidPoint(startOffset, endOffset), endOffset - 1} :
        /\ pos >= startOffset /\ pos < endOffset
        /\ LET currentColor == el[pos + 1].fg
               currentUnderline == el[pos + 1].underline
               isCorrectColor == currentColor \in {LINK_BLUE, "#1155cc", "#1155CC"}
           IN  ~isCorrectColor \/ ~currentUnderline

\* the element after applyLinkFormatting(element, startOffset, endOffset)
ApplyLinkFormatting(el, startOffset, endOffset) ==
    IF NeedsLinkFormatting(el, startOffset, endOffset)
       THEN SetUnderline(SetForegroundColor(el, startOffset, endOffset - 1, LINK_BLUE),
                         startOffset, endOffset - 1, TRUE)
       ELSE el

\* the answers of UrlFetchApp.fetch: a status code, or an exception thrown
FetchOutcomes ==
    {"200", "301", "403", "404", "500", "throws"}

\* an isLinkBroken that takes every status other than 200 and 301 for broken
IsLinkBrokenOnAnyError(outcome) ==
    outcome \notin {"200", "301"}

\* isLinkBroken(url), given what the fetch answers
IsLinkBroken(outcome) ==
    IF outcome = "throws" THEN TRUE ELSE outcome = "404"

\* an isValidNonHttp that tries the first protocol of the list only
IsValidNonHttpFirstOnly(urlLower) ==
    StartsWith(urlLower, VALID_NON_HTTP_PROTOCOLS[1])

\* isValidNonHttp of processLinkValidation
IsValidNonHttp(urlLower) ==
    \E k \in 1..Len(VALID_NON_HTTP_PROTOCOLS) : StartsWith(urlLower, VALID_NON_HTTP_PROTOCOLS[k])

\* an isHttp that accepts every scheme followed by ://
IsHttpAnyScheme(urlLower) ==
    Includes(urlLower, <<":", "/", "/">>)

\* isHttp of processLinkValidation
IsHttp(urlLower) ==
    \/ StartsWith(urlLower, <<"h", "t", "t", "p", ":", "/", "/">>)
    \/ StartsWith(urlLower, <<"h", "t", "t", "p", "s", ":", "/", "/">>)

\* an apple.com test that looks at the start of the host only
IsAppleAtHostStart(urlLower) ==
    \/ StartsWith(urlLower, <<"h", "t", "t", "p", ":", "/", "/", "a", "p", "p", "l", "e", ".", "c", "o", "m", "/">>)
    \/ StartsWith(urlLower, <<"h", "t", "t", "p", "s", ":", "/", "/", "a", "p", "p", "l", "e", ".", "c", "o", "m", "/">>)

\* urlLower.includes('apple.com')
IsApple(urlLower) ==
    Includes(urlLower, <<"a", "p", "p", "l", "e", ".", "c", "o", "m">>)

\* processLinkValidation(link), given what the fetch answers when it is made:
\* [el: the element after the call, type, needsFormatting: the object returned,
\*  fetched: the URLs handed to UrlFetchApp.fetch,
\*  backgrounds: the colours handed to setBackgroundColor for the range, in order]
ProcessLinkValidation(el, link, outcome) ==
    LET url == link.url
        startOffset == link.startOffset
        endOffset == link.endOffset
        urlLower == ToLowerCase(url)
        needsFormatting == NeedsLinkFormatting(el, startOffset, endOffset)
        formatted == ApplyLinkFormatting(el, startOffset, endOffset)
        result(e, type, fetched, backgrounds) ==
            [el |-> e, type |-> type, needsFormatting |-> needsFormatting,
             fetched |-> fetched, backgrounds |-> backgrounds]
    IN  IF IsValidNonHttp(urlLower)
           THEN result(formatted, "skipped", <<>>, <<>>)
        ELSE IF ~IsHttp(urlLower)
           THEN result(SetBackgroundColor(formatted, startOffset, endOffset - 1, INVALID_LINK),
                       "invalid", <<>>, <<INVALID_LINK>>)
        ELSE IF IsApple(urlLower)
           THEN IF IsLinkBroken(outcome)
                   THEN result(SetBackgroundColor(
                                   SetBackgroundColor(formatted, startOffset, endOffset - 1,
                                                      APPLE_LINK),
                                   startOffset, endOffset - 1, BROKEN_LINK),
                               "broken", <<url>>, <<APPLE_LINK, BROKEN_LINK>>)
                   ELSE result(SetBackgroundColor(formatted, startOffset, endOffset - 1,
                                                  APPLE_LINK),
                               "apple", <<url>>, <<APPLE_LINK>>)
        ELSE IF IsLinkBroken(outcome)
           THEN result(SetBackgroundColor(formatted, startOffset, endOffset - 1, BROKEN_LINK),
                       "broken", <<url>>, <<BROKEN_LINK>>)
        ELSE result(formatted, "valid", <<url>>, <<>>)

\* ------------------------------------------------------------------------
\* Document formatting
\* ------------------------------------------------------------------------

\* A child of the body is [type, heading, font, size, bold, charBold]: font,
\* size and bold are what element.getAttributes() holds for FONT_FAMILY,
\* FONT_SIZE and BOLD, each a sequence of one value, or <<>> for null;
\* charBold[i] is text.isBold(i - 1) of the element's text.
DOCUMENT_STYLES ==
    [heading1 |-> [font |-> "Helvetica Neue", size |-> 24, bold |-> TRUE],
     heading2 |-> [font |-> "Helvetica Neue", size |-> 14, bold |-> TRUE],
     normal |-> [font |-> "Helvetica Neue", size |-> 11, bold |-> FALSE]]

\* a needsFormatting that compares the font family only
NeedsFormattingByFont(element, targetStyle) ==
    element.font # <<targetStyle.font>>

\* a needsFormatting that is true of every element
NeedsFormattingAlways(element, targetStyle) ==
    TRUE

\* needsFormatting(element, targetStyle)
NeedsFormatting(element, targetStyle) ==
    LET currentFont == element.font
        currentSize == element.size
        currentBold == element.bold
    IN  \/ currentFont # <<targetStyle.font>>
        \/ currentSize # <<targetStyle.size>>
        \/ ("bold" \in DOMAIN targetStyle /\ currentBold # <<targetStyle.bold>>)

\* text.getTextAttributeIndices() of the element's text: the offsets where
\* a run of equally bold characters starts
RECURSIVE BoldIndicesFrom(_, _)
BoldIndicesFrom(charBold, offset) ==
    IF offset >= Len(charBold) THEN <<>>
    ELSE (IF offset = 0 \/ charBold[offset + 1] # charBold[offset]
             THEN <<offset>> ELSE <<>>)
         \o BoldIndicesFrom(charBold, offset + 1)

\* text.setBold(startOffset, endOffsetInclusive, v)
SetBold(charBold, from, to, v) ==
    [i \in 1..Len(charBold) |-> IF i - 1 >= from /\ i - 1 <= to THEN v ELSE charBold[i]]

\* element.setAttributes({BOLD: v}); reaches tells whether the host hands the
\* attribute of the element on to each of its characters
SetBoldAttribute(element, v, reaches) ==
    [element EXCEPT !.bold = <<v>>,
                    !.charBold = IF reaches THEN [i \in 1..Len(@) |-> v] ELSE @]

RECURSIVE RestoreBoldFrom(_, _, _)
\* the loop of applyFontFormatting over the runs found before the element's
\* bold was removed; wasBold is read after it
RestoreBoldFrom(charBold, indices, i) ==
    IF i > Len(indices) THEN charBold
    ELSE LET startOffset == indices[i]
             endOffset == IF i + 1 <= Len(indices) THEN indices[i + 1] - 1
                          ELSE Len(charBold) - 1
             wasBold == charBold[startOffset + 1]
         IN  RestoreBoldFrom(IF wasBold /\ endOffset >= startOffset
                                THEN SetBold(charBold, startOffset, endOffset, TRUE)
                                ELSE charBold,
                             indices, i + 1)

\* the element after applyFontFormatting(element, style)
ApplyFontFormatting(element, style, reaches) ==
    LET sized == [element EXCEPT !.font = <<style.font>>, !.size = <<style.size>>]
    IN  IF style.bold = TRUE
           THEN SetBoldAttribute(sized, TRUE, reaches)
        ELSE LET indices == BoldIndicesFrom(element.charBold, 0)
                 cleared == SetBoldAttribute(sized, FALSE, reaches)
             IN  [cleared EXCEPT !.charBold = RestoreBoldFrom(@, indices, 1)]

\* the branch of fixDocumentFormatting that the child takes, named by the
\* counter it increments; "none" when no branch is taken
BranchOf(child) ==
    IF child.type = "PARAGRAPH"
       THEN IF child.heading = "HEADING1" THEN "h1"
            ELSE IF child.heading = "HEADING2" THEN "h2"
            ELSE IF child.heading = "NORMAL" THEN "normal"
            ELSE "none"
    ELSE IF child.type = "LIST_ITEM" THEN "listItems"
    ELSE "none"

\* the style that the branch compares with and applies
StyleOf(branch) ==
    CASE branch = "h1" -> DOCUMENT_STYLES.heading1
      [] branch = "h2" -> DOCUMENT_STYLES.heading2
      [] branch \in {"normal", "listItems"} -> DOCUMENT_STYLES.normal

\* ------------------------------------------------------------------------
\* State
\* ------------------------------------------------------------------------

VARIABLES
    text,             \* the text of the selected element
    selection,        \* "none": getSelection() is null; "whole": the element is
                      \* selected as a whole; "partial": from selStart to selEnd
    selStart,         \* getStartOffset() of a partial range element
    selEnd,           \* getEndOffsetInclusive() of a partial range element
    lastOp,           \* the menu item that has run, "none" before
    before,           \* the element's text when the menu item started
    selectedText,     \* selectedText of processSelectedText
    transformedText,  \* transformedText of processSelectedText
    el,               \* the text element of the body that checkLinks walks
    pc,               \* where checkLinks is: "idle", "trim", "validate", "done"
    links,            \* links of checkLinks
    underlinedText,   \* underlinedText of checkLinks
    li,               \* the loop index i of the pass that is running (from 1)
    counts,           \* counts of checkLinks (spacesTrimmedCount in .spacesTrimmed)
    results,          \* what processLinkValidation returned and did, per link
    fetchLog,         \* the calls of UrlFetchApp.fetch of this run, in order
    elStart,          \* the element when this run of checkLinks started
    checks,           \* the number of runs of checkLinks started
    body,             \* the children of the body that fixDocumentFormatting walks
    fpc,              \* where fixDocumentFormatting is: "idle", "loop", "done"
    fi,               \* its loop index i (from 1)
    fcounts,          \* its counts
    bodyStart,        \* the children when this run of it started
    alert,            \* the title of the alert it has shown, "none" before
    formats           \* the number of runs of it started

caseVars == <<text, selection, selStart, selEnd, lastOp, before, selectedText, transformedText>>

linkVars == <<el, pc, links, underlinedText, li, counts, results, fetchLog, elStart, checks>>

formatVars == <<body, fpc, fi, fcounts, bodyStart, alert, formats>>

vars == <<caseVars, linkVars, formatVars>>

RECURSIVE Strings(_, _)
\* the strings of at most n units of the alphabet
Strings(alphabet, n) ==
    IF n = 0 THEN {<<>>}
    ELSE LET shorter == Strings(alphabet, n - 1)
         IN  shorter \cup {Append(s, c) : s \in shorter, c \in alphabet}

\* the state before a menu item runs: a document element and the user's selection
InitWith(texts, selections) ==
    /\ text \in texts
    /\ selection \in selections
    /\ selStart \in 0..(IF selection = "partial" /\ Len(text) > 0 THEN Len(text) - 1 ELSE 0)
    /\ selEnd \in (IF selection = "partial" /\ Len(text) > 0 THEN selStart..(Len(text) - 1) ELSE {0})
    /\ selection = "partial" => Len(text) > 0
    /\ lastOp = "none"
    /\ before = text
    /\ selectedText = <<>>
    /\ transformedText = <<>>

\* counts of checkLinks as created; counts.valid is not among its properties
ZeroCounts ==
    [broken |-> 0, apple |-> 0, skipped |-> 0, invalid |-> 0, formatted |-> 0,
     missingLink |-> 0, spacesTrimmed |-> 0, valid |-> "undefined"]

\* the state before checkLinks runs on the element
InitLinksWith(elements) ==
    /\ el \in elements
    /\ pc = "idle"
    /\ links = <<>>
    /\ underlinedText = <<>>
    /\ li = 0
    /\ counts = ZeroCounts
    /\ results = <<>>
    /\ fetchLog = <<>>
    /\ elStart = el
    /\ checks = 0

\* counts of fixDocumentFormatting as created
ZeroFormatCounts ==
    [h1 |-> 0, h2 |-> 0, normal |-> 0, listItems |-> 0]

\* the state before fixDocumentFormatting runs on the body
InitFormatWith(bodies) ==
    /\ body \in bodies
    /\ fpc = "idle"
    /\ fi = 0
    /\ fcounts = ZeroFormatCounts
    /\ bodyStart = body
    /\ alert = "none"
    /\ formats = 0

Init ==
    /\ InitWith(Strings(Alphabet, MaxLen), {"none", "whole", "partial"})
    /\ InitLinksWith({<<>>})
    /\ InitFormatWith({<<>>})

\* the transformFn that the menu item op hands to processSelectedText
TransformFn(op, s) ==
    CASE op = "lower" -> LowerCaseFn(s)
      [] op = "upper" -> UpperCaseFn(s)
      [] op = "initial" -> InitialCapsFn(s)
      [] op = "sentence" -> SentenceCaseFn(s)
      [] op = "title" -> TitleCaseFn(s)

\* processSelectedText(transformFn) for the one selected element
ProcessSelectedText(op) ==
    /\ selection # "none"
    /\ LET startOffset == StartOffsetOf(text, selection = "partial", selStart)
           endOffset == EndOffsetOf(text, selection = "partial", selEnd)
           selected == Substring(text, startOffset, endOffset + 1)
           transformed == TransformFn(op, selected)
       IN  /\ selectedText' = selected
           /\ transformedText' = transformed
           /\ text' = EditLoop(text, selected, transformed, startOffset,
                               endOffset - startOffset, 0)
    /\ before' = text
    /\ lastOp' = op
    /\ UNCHANGED <<selection, selStart, selEnd>>
    /\ UNCHANGED <<linkVars, formatVars>>

ConvertToLowerCase ==
    /\ lastOp = "none"
    /\ ProcessSelectedText("lower")

ConvertToUpperCase ==
    /\ lastOp = "none"
    /\ ProcessSelectedText("upper")

ConvertToInitialCaps ==
    /\ lastOp = "none"
    /\ ProcessSelectedText("initial")

ConvertToSentenceCase ==
    /\ lastOp = "none"
    /\ ProcessSelectedText("sentence")

ConvertToTitleCase ==
    /\ lastOp = "none"
    /\ ProcessSelectedText("title")

Next ==
    \/ ConvertToLowerCase
    \/ ConvertToUpperCase
    \/ ConvertToInitialCaps
    \/ ConvertToSentenceCase
    \/ ConvertToTitleCase

Spec ==
    Init /\ [][Next]_vars

\* the title-case menu item alone, on longer texts of a smaller alphabet
InitTitle ==
    /\ InitWith(Strings(TitleAlphabet, MaxTitleLen), {"whole"})
    /\ InitLinksWith({<<>>})
    /\ InitFormatWith({<<>>})

NextTitle ==
    ConvertToTitleCase

SpecTitle ==
    InitTitle /\ [][NextTitle]_vars

\* the pieces of the texts of the title-case specification on words: the
\* separators, a stop word in upper case, a word, a token with punctuation
\* inside it and a token with punctuation around it
TitlePieces ==
    { <<":">>, <<" ">>, <<"-">>, <<"A">>, <<"b">>, <<"A", ".", "A">>, <<".", "b", ".">> }

RECURSIVE PieceTexts(_)
\* the texts of at most n pieces
PieceTexts(n) ==
    IF n = 0 THEN {<<>>}
    ELSE LET shorter == PieceTexts(n - 1)
         IN  shorter \cup {t \o p : t \in shorter, p \in TitlePieces}

\* the title-case menu item alone, on texts made of words and separators
InitTitleWords ==
    /\ InitWith(PieceTexts(MaxPieces), {"whole"})
    /\ InitLinksWith({<<>>})
    /\ InitFormatWith({<<>>})

NextTitleWords ==
    ConvertToTitleCase

SpecTitleWords ==
    InitTitleWords /\ [][NextTitleWords]_vars

\* ------------------------------------------------------------------------
\* checkLinks
\* ------------------------------------------------------------------------

\* the URLs of the links of the model's documents
Urls ==
    LET x == <<"x">>
        http == <<"h", "t", "t", "p", ":", "/", "/">>
        https == <<"h", "t", "t", "p", "s", ":", "/", "/">>
        apple == <<"a", "p", "p", "l", "e", ".", "c", "o", "m">>
    IN  {VALID_NON_HTTP_PROTOCOLS[k] \o x : k \in 1..Len(VALID_NON_HTTP_PROTOCOLS)}
        \cup { <<"M", "A", "I", "L", "T", "O", ":">> \o x,
               <<"f", "i", "l", "e", ":">> \o https \o apple,
               http \o x,
               https \o x,
               https \o apple,
               <<"H", "T", "T", "P", "S", ":", "/", "/">> \o <<"A", "P", "P", "L", "E", ".", "C", "O", "M">>,
               <<"h", "t", "p", ":", "/", "/">> \o x,
               <<"w", "w", "w", ".">> \o x,
               <<"x", "y", "z", ":", "/", "/">> \o x,
               <<"m", "a", "i", "l", "t", "o">> }

\* the texts of the runs of the model's documents
RunTexts ==
    { <<"x">>, <<" ", " ", "x", " ", " ">>, <<" ">>, <<"TAB", "x", " ">> }

\* a run of characters that share their attributes
Run(txt, url, underline, fg) ==
    [i \in 1..Len(txt) |->
        [ch |-> txt[i], url |-> url, underline |-> underline, fg |-> fg,
         bg |-> NoColor, bold |-> FALSE]]

Runs ==
    {Run(t, u, ul, fg) : t \in RunTexts, u \in Urls \cup {Null}, ul \in BOOLEAN,
                         fg \in {"#1155cc", "#000000"}}

\* the runs that follow the first run of an element: a link with spaces around
\* its text, a link that is neither blue nor underlined, underlined text
\* without a link, and plain text
FollowingRuns ==
    { Run(<<" ", "x", " ">>, <<"h", "t", "t", "p", "s", ":", "/", "/", "x">>, TRUE, "#1155cc"),
      Run(<<"x">>, <<"m", "a", "i", "l", "t", "o", ":", "x">>, FALSE, "#000000"),
      Run(<<"x">>, Null, TRUE, "#000000"),
      Run(<<" ">>, Null, FALSE, "#000000") }

RECURSIVE Elements(_)
\* the text elements of at least one and at most n runs
Elements(n) ==
    IF n <= 1 THEN Runs
    ELSE LET fewer == Elements(n - 1)
         IN  fewer \cup {e \o r : e \in fewer, r \in FollowingRuns}

InitLinks ==
    /\ InitWith({<<>>}, {"none"})
    /\ InitLinksWith(Elements(MaxRuns))
    /\ InitFormatWith({<<>>})

\* checkLinks, up to the end of the extraction: links and underlinedText are
\* filled, the first pass is about to start at the last link
CheckLinksExtract ==
    /\ pc \in {"idle", "done"}
    /\ checks < MaxChecks
    /\ checks' = checks + 1
    /\ links' = ExtractLinks(el)
    /\ underlinedText' = ExtractUnderlinedText(el)
    /\ li' = Len(links')
    /\ counts' = ZeroCounts
    /\ results' = <<>>
    /\ fetchLog' = <<>>
    /\ elStart' = el
    /\ pc' = "trim"
    /\ UNCHANGED <<el, caseVars, formatVars>>

\* one round of the first pass: trimLinkSpaces(links[i]), i from the last link down
TrimPassStep ==
    /\ pc = "trim"
    /\ li >= 1
    /\ LET r == TrimLinkSpaces(el, links[li])
       IN  /\ el' = r.el
           /\ links' = [links EXCEPT ![li] = r.link]
           /\ counts' = [counts EXCEPT !.spacesTrimmed =
                            IF r.spacesTrimmed THEN @ + 1 ELSE @]
    /\ li' = li - 1
    /\ UNCHANGED <<pc, underlinedText, results, fetchLog, elStart, checks, caseVars, formatVars>>

\* the first pass is over: the second pass starts at the first link
TrimPassEnd ==
    /\ pc = "trim"
    /\ li = 0
    /\ pc' = "validate"
    /\ li' = 1
    /\ UNCHANGED <<el, links, underlinedText, counts, results, fetchLog, elStart, checks,
                   caseVars, formatVars>>

\* counts[result.type]++
CountType(c, type) ==
    CASE type = "broken" -> [c EXCEPT !.broken = @ + 1]
      [] type = "apple" -> [c EXCEPT !.apple = @ + 1]
      [] type = "skipped" -> [c EXCEPT !.skipped = @ + 1]
      [] type = "invalid" -> [c EXCEPT !.invalid = @ + 1]
      [] type = "valid" -> [c EXCEPT !.valid = "NaN"]

\* one round of links.forEach: processLinkValidation(link) and the counting;
\* the fetch, if one is made, answers with any outcome
ValidatePassStep ==
    /\ pc = "validate"
    /\ li <= Len(links)
    /\ \E outcome \in FetchOutcomes :
          LET r == ProcessLinkValidation(el, links[li], outcome)
              counted == CountType(counts, r.type)
          IN  /\ el' = r.el
              /\ counts' = IF r.needsFormatting
                              THEN [counted EXCEPT !.formatted = @ + 1]
                              ELSE counted
              /\ results' = Append(results, [type |-> r.type,
                                             needsFormatting |-> r.needsFormatting,
                                             backgrounds |-> r.backgrounds])
              /\ fetchLog' = fetchLog \o
                                [k \in 1..Len(r.fetched) |->
                                    [link |-> li, url |-> r.fetched[k], outcome |-> outcome]]
    /\ li' = li + 1
    /\ UNCHANGED <<pc, links, underlinedText, elStart, checks, caseVars, formatVars>>

RECURSIVE HighlightFrom(_, _, _)
\* underlinedText.forEach(item => setBackgroundColor(..., COLORS.MISSING_LINK))
HighlightFrom(e, items, k) ==
    IF k > Len(items) THEN e
    ELSE HighlightFrom(SetBackgroundColor(e, items[k].startOffset, items[k].endOffset - 1,
                                          MISSING_LINK),
                       items, k + 1)

\* the second pass is over: the underlined texts without link are highlighted
\* and counted, and the result is shown
HighlightMissingLinks ==
    /\ pc = "validate"
    /\ li > Len(links)
    /\ el' = HighlightFrom(el, underlinedText, 1)
    /\ counts' = [counts EXCEPT !.missingLink = @ + Len(underlinedText)]
    /\ pc' = "done"
    /\ UNCHANGED <<links, underlinedText, li, results, fetchLog, elStart, checks, caseVars, formatVars>>

NextLinks ==
    \/ CheckLinksExtract
    \/ TrimPassStep
    \/ TrimPassEnd
    \/ ValidatePassStep
    \/ HighlightMissingLinks

SpecLinks ==
    InitLinks /\ [][NextLinks]_vars

\* ------------------------------------------------------------------------
\* fixDocumentFormatting
\* ------------------------------------------------------------------------

Child(type, heading, font, size, bold, charBold) ==
    [type |-> type, heading |-> heading, font |-> font, size |-> size, bold |-> bold,
     charBold |-> charBold]

\* the children the body starts with: paragraphs of five headings, list
\* items and tables, with and without each attribute set on the element
FirstChildren ==
    LET kinds == {<<"PARAGRAPH", h>> : h \in {"HEADING1", "HEADING2", "NORMAL",
                                               "HEADING3", "TITLE"}}
                 \cup {<<"LIST_ITEM", "NORMAL">>, <<"TABLE", "NONE">>}
    IN  {Child(k[1], k[2], font, size, bold, charBold) :
            k \in kinds,
            font \in {<<"Helvetica Neue">>, <<"Arial">>, <<>>},
            size \in {<<24>>, <<14>>, <<11>>, <<>>},
            bold \in {<<TRUE>>, <<FALSE>>, <<>>},
            charBold \in {<<FALSE>>, <<TRUE>>, <<TRUE, FALSE>>}}

\* the children that follow: a Heading 1 in the wrong font and size, a Normal
\* paragraph in the right ones with one bold character, a list item with the
\* target style, a Heading 3 paragraph
FollowingChildren ==
    { Child("PARAGRAPH", "HEADING1", <<"Arial">>, <<14>>, <<FALSE>>, <<FALSE>>),
      Child("PARAGRAPH", "NORMAL", <<"Helvetica Neue">>, <<11>>, <<>>, <<TRUE, FALSE>>),
      Child("LIST_ITEM", "NORMAL", <<"Helvetica Neue">>, <<11>>, <<FALSE>>, <<FALSE>>),
      Child("PARAGRAPH", "HEADING3", <<"Arial">>, <<14>>, <<>>, <<FALSE>>) }

RECURSIVE Bodies(_)
\* the bodies of at least one and at most n children
Bodies(n) ==
    IF n <= 1 THEN {<<c>> : c \in FirstChildren}
    ELSE LET fewer == Bodies(n - 1)
         IN  fewer \cup {Append(b, c) : b \in fewer, c \in FollowingChildren}

InitFormat ==
    /\ InitWith({<<>>}, {"none"})
    /\ InitLinksWith({<<>>})
    /\ InitFormatWith(Bodies(MaxChildren))

\* fixDocumentFormatting up to its loop: the counts are created
FixFormattingStart ==
    /\ fpc \in {"idle", "done"}
    /\ formats < MaxFormats
    /\ formats' = formats + 1
    /\ fcounts' = ZeroFormatCounts
    /\ fi' = 1
    /\ bodyStart' = body
    /\ alert' = "none"
    /\ fpc' = "loop"
    /\ UNCHANGED <<body, caseVars, linkVars>>

\* one round of the loop over the children of the body
FixFormattingChild ==
    /\ fpc = "loop"
    /\ fi <= Len(body)
    /\ \E reaches \in BOOLEAN :
          LET child == body[fi]
              branch == BranchOf(child)
          IN  IF branch # "none" /\ NeedsFormatting(child, StyleOf(branch))
                 THEN /\ body' = [body EXCEPT ![fi] =
                                     ApplyFontFormatting(child, StyleOf(branch), reaches)]
                      /\ fcounts' = [fcounts EXCEPT ![branch] = @ + 1]
                 ELSE UNCHANGED <<body, fcounts>>
    /\ fi' = fi + 1
    /\ UNCHANGED <<fpc, bodyStart, alert, formats, caseVars, linkVars>>

\* the loop is over: the alert is shown
FixFormattingFinish ==
    /\ fpc = "loop"
    /\ fi > Len(body)
    /\ LET totalChanges == fcounts.h1 + fcounts.h2 + fcounts.normal + fcounts.listItems
       IN  alert' = IF totalChanges = 0 THEN "Formatting Check Complete"
                    ELSE "Formatting Complete"
    /\ fpc' = "done"
    /\ UNCHANGED <<body, fi, fcounts, bodyStart, formats, caseVars, linkVars>>

NextFormat ==
    \/ FixFormattingStart
    \/ FixFormattingChild
    \/ FixFormattingFinish

SpecFormat ==
    InitFormat /\ [][NextFormat]_vars

\* ------------------------------------------------------------------------
\* Vocabulary of the properties
\* ------------------------------------------------------------------------

\* the letters of the model's code units, and the upper-case ones among them
IsLetter(c) ==
    IsLowerLetter(c) \/ IsUpperLetter(c) \/ c \in {"eacute", "EACUTE", "ESZETT", "IDOT"}

IsUpperCaseLetter(c) ==
    IsUpperLetter(c) \/ c \in {"EACUTE", "IDOT"}

IsLowerCaseLetter(c) ==
    IsLetter(c) /\ ~IsUpperCaseLetter(c)

\* c itself and its other-case form
CaseFormsOf(c) ==
    {c} \cup {x \in {UpperChar(c)[1], LowerChar(c)[1]} : <<x>> \in {UpperChar(c), LowerChar(c)}}

\* a menu item has run on a selection
Ran(op) ==
    lastOp = op

\* the separators of title case: whitespace, dash, colon
IsSeparatorChar(c) ==
    IsWhitespace(c) \/ IsDashOrColon(c)

\* the index where the token holding index i starts / ends: tokens are the
\* stretches between separators
TokenStart(s, i) ==
    CHOOSE k \in 1..i :
        /\ \A x \in k..i : ~IsSeparatorChar(s[x])
        /\ (k = 1 \/ IsSeparatorChar(s[k - 1]))

TokenEnd(s, i) ==
    CHOOSE k \in i..Len(s) :
        /\ \A x \in i..k : ~IsSeparatorChar(s[x])
        /\ (k = Len(s) \/ IsSeparatorChar(s[k + 1]))

\* index i is the first word character of its token
StartsWord(s, i) ==
    /\ IsWordChar(s[i])
    /\ \A x \in TokenStart(s, i)..(i - 1) : ~IsWordChar(s[x])

\* the token holding index i is one word with punctuation before or after it at most
IsPlainWordToken(s, i) ==
    LET a == TokenStart(s, i)
        b == TokenEnd(s, i)
    IN  \A x \in a..b, y \in a..b, z \in a..b :
            x <= y /\ y <= z /\ IsWordChar(s[x]) /\ IsWordChar(s[z]) => IsWordChar(s[y])

\* the word of the plain word token whose first word character is at index i
WordAt(s, i) ==
    SubSeq(s, i, CHOOSE k \in i..Len(s) :
                     /\ \A x \in i..k : IsWordChar(s[x])
                     /\ (k = Len(s) \/ ~IsWordChar(s[k + 1])))

IsStopWordAt(s, i) ==
    ToLowerCase(WordAt(s, i)) \in TITLE_CASE_LOWERCASE_WORDS

\* out holds the word that starts at index i of s capitalized: first letter
\* upper case, the remaining letters lower case
CapitalizedAt(s, out, i) ==
    /\ Len(out) = Len(s)
    /\ <<out[i]>> = ToUpperCase(ToLowerCase(<<s[i]>>))
    /\ \A x \in (i + 1)..(i + Len(WordAt(s, i)) - 1) : <<out[x]>> = ToLowerCase(<<s[x]>>)

\* out holds the word that starts at index i of s in lower case
LowercasedAt(s, out, i) ==
    /\ Len(out) = Len(s)
    /\ \A x \in i..(i + Len(WordAt(s, i)) - 1) : <<out[x]>> = ToLowerCase(<<s[x]>>)

\* the indices where a word-bearing token has its first word character
WordStarts(s) ==
    {i \in 1..Len(s) : StartsWord(s, i)}

\* ------------------------------------------------------------------------
\* Properties
\* ------------------------------------------------------------------------

\* C1: each of the five case transforms returns a string of the same length as
\* its input in which every position holds the input's character or its
\* other-case form.
C1_SameLengthCaseOnly ==
    lastOp # "none" =>
        /\ Len(transformedText) = Len(selectedText)
        /\ \A i \in 1..Len(selectedText) :
              transformedText[i] \in CaseFormsOf(selectedText[i])

\* C2: upper case and lower case are idempotent: applying the transform again
\* to what it returned returns the same string.
C2_UpperLowerIdempotent ==
    /\ Ran("upper") => ToUpperCase(transformedText) = transformedText
    /\ Ran("lower") => ToLowerCase(transformedText) = transformedText

\* C2 witness: upper case has run on a text holding a sharp s and changed it
C2_Witness ==
    /\ Ran("upper")
    /\ \E i \in 1..Len(selectedText) : selectedText[i] = "ESZETT"
    /\ \E i \in 1..Len(selectedText) : IsLowerLetter(selectedText[i])
    /\ transformedText # selectedText

\* a phrase of words of ASCII letters separated by single spaces
IsSimplePhrase(s) ==
    /\ Len(s) > 0
    /\ \A i \in 1..Len(s) : IsLowerLetter(s[i]) \/ IsUpperLetter(s[i]) \/ s[i] = " "
    /\ s[1] # " " /\ s[Len(s)] # " "
    /\ \A i \in 1..(Len(s) - 1) : ~(s[i] = " " /\ s[i + 1] = " ")

\* C3: on a phrase of words of ASCII letters separated by single spaces, title
\* case capitalizes the first and the last word, lower-cases every interior
\* word that is in TITLE_CASE_LOWERCASE_WORDS and capitalizes every other one.
C3_TitleCaseOfSimplePhrase ==
    Ran("title") /\ IsSimplePhrase(selectedText) =>
        /\ Len(transformedText) = Len(selectedText)
        /\ \A i \in 1..Len(selectedText) :
              selectedText[i] = " " => transformedText[i] = " "
        /\ \A i \in WordStarts(selectedText) :
              LET isFirst == i = 1
                  isLast == i + Len(WordAt(selectedText, i)) - 1 = Len(selectedText)
              IN  IF isFirst \/ isLast \/ ~IsStopWordAt(selectedText, i)
                     THEN CapitalizedAt(selectedText, transformedText, i)
                     ELSE LowercasedAt(selectedText, transformedText, i)

\* C3 witness: title case has run on a phrase of three words whose interior
\* word is an upper-case stop word
C3_Witness ==
    /\ Ran("title")
    /\ IsSimplePhrase(selectedText)
    /\ \E i \in WordStarts(selectedText) :
          /\ i > 1
          /\ i + Len(WordAt(selectedText, i)) - 1 < Len(selectedText)
          /\ IsStopWordAt(selectedText, i)
          /\ IsUpperLetter(selectedText[i])
          /\ IsLowerLetter(transformedText[i])
    /\ IsLowerLetter(selectedText[1])
    /\ IsUpperLetter(transformedText[1])

\* index j holds the first word character after the colon at index i
FirstWordCharAfter(s, i, j) ==
    /\ j > i
    /\ IsWordChar(s[j])
    /\ \A x \in (i + 1)..(j - 1) : ~IsWordChar(s[x])

\* the word that starts at index i is neither the first nor the last of s
IsInteriorWord(s, i) ==
    /\ \E x \in 1..(i - 1) : IsWordChar(s[x])
    /\ \E x \in (TokenEnd(s, i) + 1)..Len(s) : IsWordChar(s[x])

C5_FirstAndLastCapitalized ==
    Ran("title") =>
        \A i \in WordStarts(selectedText) :
            \/ IsInteriorWord(selectedText, i)
            \/ CapitalizedAt(selectedText, transformedText, i)

\* C6: a stop word that directly follows a dash is capitalized, as the first
\* word after a colon is.  (Stated for the stop words that are neither the
\* first nor the last word, which no other rule capitalizes.)
C6_CapitalAfterDash ==
    Ran("title") =>
        \A i \in 1..(Len(selectedText) - 1) :
            /\ selectedText[i] \in {"-", "EMDASH"}
            /\ StartsWord(selectedText, i + 1)
            /\ IsInteriorWord(selectedText, i + 1)
            /\ IsPlainWordToken(selectedText, i + 1)
            /\ IsStopWordAt(selectedText, i + 1)
            => CapitalizedAt(selectedText, transformedText, i + 1)

C8_SentenceCaseFirstLetter ==
    Ran("sentence") /\ (\E i \in 1..Len(selectedText) : IsLetter(selectedText[i])) =>
        LET p == CHOOSE i \in 1..Len(selectedText) :
                     /\ IsLetter(selectedText[i])
                     /\ \A x \in 1..(i - 1) : ~IsLetter(selectedText[x])
            upper == ToUpperCase(ToLowerCase(<<selectedText[p]>>))
        IN  /\ Len(transformedText) >= p + Len(upper) - 1
            /\ SubSeq(transformedText, p, p + Len(upper) - 1) = upper
            /\ \A x \in (p + Len(upper))..Len(transformedText) :
                  ~IsUpperCaseLetter(transformedText[x])

HasNonHttpPrefix(url) ==
    \E p \in { <<"m", "a", "i", "l", "t", "o", ":">>, <<"t", "e", "l", ":">>,
               <<"s", "m", "s", ":">>, <<"f", "t", "p", ":">>,
               <<"s", "f", "t", "p", ":">>, <<"f", "i", "l", "e", ":">> } :
        StartsWith(url, p)

\* the fetch was called for the k-th link of this run
FetchedFor(k) ==
    \E f \in 1..Len(fetchLog) : fetchLog[f].link = k

\* the background of every character of the k-th link's range is what it was
\* when the run started
BackgroundUntouched(k) ==
    \A offset \in links[k].startOffset..(links[k].endOffset - 1) :
        el[offset + 1].bg = elStart[offset + 1].bg

\* C10: for a link whose URL starts with mailto:, tel:, sms:, ftp:, sftp: or
\* file:, processLinkValidation returns 'skipped', the fetch is never made for
\* it and no background colour is set on its range.
C10_NonHttpSkipped ==
    \A k \in 1..Len(results) :
        HasNonHttpPrefix(links[k].url) =>
            /\ results[k].type = "skipped"
            /\ ~FetchedFor(k)
            /\ results[k].backgrounds = <<>>
            /\ BackgroundUntouched(k)

\* C10 witness: a run of checkLinks is over in which an sftp: link that was
\* neither blue nor underlined was validated: it was formatted and skipped
C10_Witness ==
    /\ pc = "done"
    /\ \E k \in 1..Len(results) :
          /\ StartsWith(links[k].url, <<"s", "f", "t", "p", ":">>)
          /\ results[k].type = "skipped"
          /\ results[k].needsFormatting
          /\ el[links[k].startOffset + 1].fg = LINK_BLUE
    /\ counts.skipped = 1

\* the URL starts with http:// or https://
HasHttpPrefix(url) ==
    \/ StartsWith(url, <<"h", "t", "t", "p", ":", "/", "/">>)
    \/ StartsWith(url, <<"h", "t", "t", "p", "s", ":", "/", "/">>)

\* the URL holds apple.com
HoldsAppleCom(url) ==
    \E i \in 1..Len(url) :
        /\ i + 8 <= Len(url)
        /\ SubSeq(url, i, i + 8) = <<"a", "p", "p", "l", "e", ".", "c", "o", "m">>

\* the background of every character of the k-th link's range is the colour
RangeBackground(k, colour) ==
    \A offset \in links[k].startOffset..(links[k].endOffset - 1) :
        el[offset + 1].bg = colour

\* the categories that processLinkValidation returns
LinkTypes ==
    {"skipped", "invalid", "apple", "broken", "valid"}

\* C11: every link is classified; a link whose lower-cased URL starts with
\* none of the six non-HTTP prefixes and with neither http:// nor https:// is
\* classified 'invalid', its range has the orange background and the fetch is
\* never made for it.
C11_UnknownSchemeInvalid ==
    /\ \A k \in 1..Len(results) :
          /\ results[k].type \in LinkTypes
          /\ LET urlLower == ToLowerCase(links[k].url)
             IN  (~HasNonHttpPrefix(urlLower) /\ ~HasHttpPrefix(urlLower)) =>
                    /\ results[k].type = "invalid"
                    /\ results[k].backgrounds = <<INVALID_LINK>>
                    /\ RangeBackground(k, INVALID_LINK)
                    /\ ~FetchedFor(k)
    /\ pc = "done" => Len(results) = Len(links)

\* C11 witness: a run of checkLinks is over in which the link htp://x was
\* classified invalid and is orange, with no fetch made
C11_Witness ==
    /\ pc = "done"
    /\ Len(results) = Len(links)
    /\ \E k \in 1..Len(results) :
          /\ links[k].url = <<"h", "t", "p", ":", "/", "/", "x">>
          /\ results[k].type = "invalid"
          /\ RangeBackground(k, INVALID_LINK)
    /\ fetchLog = <<>>
    /\ counts.invalid >= 1

\* C12: for a link whose lower-cased URL starts with http:// or https://, the
\* fetch is made and the category is 'broken' iff isLinkBroken answers true,
\* else 'apple' if the lower-cased URL holds apple.com, else 'valid'; the
\* range ends up red for broken (set after the yellow for an apple.com URL),
\* yellow for apple, and with no background set by the call for valid.
C12_HttpBrokenAppleValid ==
    \A k \in 1..Len(results) :
        LET urlLower == ToLowerCase(links[k].url)
        IN  HasHttpPrefix(urlLower) =>
               \E f \in 1..Len(fetchLog) :
                   /\ fetchLog[f].link = k
                   /\ LET broken == IsLinkBroken(fetchLog[f].outcome)
                          apple == HoldsAppleCom(urlLower)
                      IN  /\ results[k].type =
                                IF broken THEN "broken" ELSE IF apple THEN "apple" ELSE "valid"
                          /\ broken =>
                                /\ RangeBackground(k, BROKEN_LINK)
                                /\ results[k].backgrounds =
                                      IF apple THEN <<APPLE_LINK, BROKEN_LINK>>
                                      ELSE <<BROKEN_LINK>>
                          /\ (~broken /\ apple) =>
                                /\ RangeBackground(k, APPLE_LINK)
                                /\ results[k].backgrounds = <<APPLE_LINK>>
                          /\ (~broken /\ ~apple) =>
                                /\ results[k].backgrounds = <<>>
                                /\ BackgroundUntouched(k)

\* C12 witness: a run is over in which an apple.com link answered 404: it is
\* broken and red, the red set after the yellow
C12_Witness ==
    /\ pc = "done"
    /\ \E k \in 1..Len(results) :
          /\ HoldsAppleCom(links[k].url)
          /\ HasHttpPrefix(links[k].url)
          /\ results[k].type = "broken"
          /\ results[k].backgrounds = <<APPLE_LINK, BROKEN_LINK>>
          /\ RangeBackground(k, BROKEN_LINK)
          /\ \E f \in 1..Len(fetchLog) : fetchLog[f].link = k /\ fetchLog[f].outcome = "404"

\* the fetch answered 404 or threw
Is404OrThrown(outcome) ==
    outcome \in {"404", "throws"}

\* C13: isLinkBroken is true iff the fetch answers 404 or throws, false for
\* every other status; a fetch that throws does not end the classification:
\* the link it was made for has its category, which is 'broken' iff the fetch
\* answered 404 or threw.
C13_BrokenIff404OrThrows ==
    \A f \in 1..Len(fetchLog) :
        LET outcome == fetchLog[f].outcome
            k == fetchLog[f].link
        IN  /\ IsLinkBroken(outcome) = Is404OrThrown(outcome)
            /\ k <= Len(results)
            /\ (results[k].type = "broken") = Is404OrThrown(outcome)

\* C13 witness: a run is over in which the fetch threw for the first link and
\* answered 403 for the second: the first is broken, the second is not
C13_Witness ==
    /\ pc = "done"
    /\ Len(fetchLog) = 2
    /\ fetchLog[1].outcome = "throws"
    /\ fetchLog[2].outcome = "403"
    /\ results[fetchLog[1].link].type = "broken"
    /\ results[fetchLog[2].link].type = "valid"

\* the two URLs differ in the case of their letters at most
SameButCase(u, v) ==
    /\ Len(u) = Len(v)
    /\ \A i \in 1..Len(u) : v[i] \in CaseFormsOf(u[i])

\* the outcomes of the fetch for the k-th link: the one logged, or any if
\* no fetch was made for it
OutcomesFor(k) ==
    IF FetchedFor(k)
       THEN {fetchLog[f].outcome : f \in {g \in 1..Len(fetchLog) : fetchLog[g].link = k}}
       ELSE FetchOutcomes

\* C14: a URL that differs from a link's URL in letter case only gets the
\* link's category under the same answer of the fetch; the URL handed to the
\* fetch and the URL on the link's range are the document's URL as it was,
\* not its lower-cased form.
C14_CaseInsensitiveClassification ==
    /\ \A k \in 1..Len(results) :
          \A u \in Urls :
              SameButCase(u, links[k].url) =>
                  \A outcome \in OutcomesFor(k) :
                      ProcessLinkValidation(el, [links[k] EXCEPT !.url = u], outcome).type
                          = results[k].type
    /\ \A f \in 1..Len(fetchLog) :
          LET k == fetchLog[f].link
          IN  /\ fetchLog[f].url = elStart[links[k].startOffset + 1].url
              /\ \A offset \in links[k].startOffset..(links[k].endOffset - 1) :
                    el[offset + 1].url = elStart[offset + 1].url

\* C14 witness: a run is over in which HTTPS://APPLE.COM was classified apple
\* and fetched under that spelling
C14_Witness ==
    /\ pc = "done"
    /\ \E k \in 1..Len(results) :
          /\ links[k].url = <<"H", "T", "T", "P", "S", ":", "/", "/",
                               "A", "P", "P", "L", "E", ".", "C", "O", "M">>
          /\ results[k].type = "apple"
          /\ \E f \in 1..Len(fetchLog) :
                fetchLog[f].link = k /\ fetchLog[f].url = links[k].url
          /\ el[links[k].startOffset + 1].url = links[k].url

\* the links of this run as extractLinks pushed them, before the trim pass
ExtractedLinks ==
    ExtractLinks(elStart)

\* trimLinkSpaces has been called for the k-th link of this run
Trimmed(k) ==
    \/ pc \in {"validate", "done"}
    \/ pc = "trim" /\ k > li

\* spacesTrimmed of the call of trimLinkSpaces that this step makes
SpacesTrimmedReturned ==
    counts'.spacesTrimmed = counts.spacesTrimmed + 1

\* C15: in every call of trimLinkSpaces, spacesTrimmed is true iff the link's
\* startOffset or endOffset is changed; when the linked text holds a character
\* other than ' ', the new bounds lie within the old ones, are not empty, and
\* leave out exactly the leading and the trailing ' ' characters (a tab is not
\* left out).
C15_TrimmedBounds ==
    [][TrimPassStep =>
        LET old == links[li]
            new == links'[li]
            fullText == GetText(el)
        IN  /\ SpacesTrimmedReturned <=>
                  (new.startOffset # old.startOffset \/ new.endOffset # old.endOffset)
            /\ new.url = old.url
            /\ (\E offset \in old.startOffset..(old.endOffset - 1) : fullText[offset + 1] # " ") =>
                  /\ old.startOffset <= new.startOffset
                  /\ new.startOffset < new.endOffset
                  /\ new.endOffset <= old.endOffset
                  /\ \A offset \in old.startOffset..(new.startOffset - 1) :
                        fullText[offset + 1] = " "
                  /\ \A offset \in new.endOffset..(old.endOffset - 1) :
                        fullText[offset + 1] = " "
                  /\ fullText[new.startOffset + 1] # " "
                  /\ fullText[new.endOffset] # " "
    ]_vars

\* C15 witness: the trim pass is over for a link whose text was two spaces, a
\* character and two spaces: its start moved by +2 and its end by -2, and one
\* link is counted as trimmed
C15_Witness ==
    /\ pc = "validate"
    /\ Len(links) = 1
    /\ Substring(GetText(el), ExtractedLinks[1].startOffset, ExtractedLinks[1].endOffset)
          = <<" ", " ", "x", " ", " ">>
    /\ links[1].startOffset = ExtractedLinks[1].startOffset + 2
    /\ links[1].endOffset = ExtractedLinks[1].endOffset - 2
    /\ counts.spacesTrimmed = 1

\* C16: a call of trimLinkSpaces leaves the element's text as it is; when it
\* returns spacesTrimmed = true, the characters of the old range carry the
\* link's URL exactly on the new range, every character of the old range
\* outside the new one has no link and no underline, and nothing else is
\* changed; when it returns false the element is unchanged.
C16_TrimKeepsSpacesUnlinked ==
    [][TrimPassStep =>
        LET old == links[li]
            new == links'[li]
        IN  /\ GetText(el') = GetText(el)
            /\ SpacesTrimmedReturned =>
                  \A offset \in 0..(Len(el) - 1) :
                      IF offset >= new.startOffset /\ offset < new.endOffset
                         THEN /\ el'[offset + 1] = el[offset + 1]
                              /\ el'[offset + 1].url = old.url
                      ELSE IF offset >= old.startOffset /\ offset < old.endOffset
                         THEN /\ el'[offset + 1].url = Null
                              /\ el'[offset + 1].underline = FALSE
                              /\ el'[offset + 1] =
                                    [el[offset + 1] EXCEPT !.url = Null, !.underline = FALSE]
                      ELSE el'[offset + 1] = el[offset + 1]
            /\ ~SpacesTrimmedReturned => el' = el
    ]_vars

\* C16 witness: the trim pass is over for an underlined link that had spaces
\* around its text: the spaces are still there, now without link or underline,
\* and the character between them has the link
C16_Witness ==
    /\ pc = "validate"
    /\ counts.spacesTrimmed >= 1
    /\ GetText(el) = GetText(elStart)
    /\ \E k \in 1..Len(links) :
          LET old == ExtractedLinks[k]
          IN  /\ links[k].startOffset > old.startOffset
              /\ links[k].endOffset < old.endOffset
              /\ elStart[old.startOffset + 1].underline
              /\ elStart[old.endOffset].underline
              /\ el[old.startOffset + 1].ch = " "
              /\ el[old.startOffset + 1].url = Null
              /\ ~el[old.startOffset + 1].underline
              /\ el[old.endOffset].url = Null
              /\ ~el[old.endOffset].underline
              /\ el[links[k].startOffset + 1].url = links[k].url

\* the colour is #1155CC, in either spelling of its hexadecimal digits
IsLinkBlue(colour) ==
    colour \in {"#1155CC", "#1155cc"}

\* every character of the k-th link's range is blue and underlined in e
BlueAndUnderlined(e, k) ==
    \A offset \in links[k].startOffset..(links[k].endOffset - 1) :
        IsLinkBlue(e[offset + 1].fg) /\ e[offset + 1].underline

\* C17: when checkLinks is over, every character of every link range is blue
\* (#1155CC) and underlined, whatever the link's category and whatever its
\* colour and underline were, and counts.formatted is the number of link
\* ranges that were not blue and underlined when the run started.
C17_AllLinksBlueUnderlined ==
    pc = "done" =>
        /\ \A k \in 1..Len(links) : BlueAndUnderlined(el, k)
        /\ counts.formatted =
              Cardinality({k \in 1..Len(links) : ~BlueAndUnderlined(elStart, k)})

\* C17 witness: a run is over on two links, an invalid one that was blue but
\* not underlined and a skipped one that was neither: both are blue and
\* underlined and two links are counted as formatted
C17_Witness ==
    /\ pc = "done"
    /\ Len(links) = 2
    /\ results[1].type = "invalid"
    /\ results[2].type = "skipped"
    /\ IsLinkBlue(elStart[links[1].startOffset + 1].fg)
    /\ ~elStart[links[1].startOffset + 1].underline
    /\ ~IsLinkBlue(elStart[links[2].startOffset + 1].fg)
    /\ BlueAndUnderlined(el, 1)
    /\ BlueAndUnderlined(el, 2)
    /\ counts.formatted = 2

\* the attribute runs of the element as it was when the run started: the
\* indices i of getTextAttributeIndices, the run's first offset and its end
RunIndices ==
    1..Len(GetTextAttributeIndices(elStart))

RunStartOffset(i) ==
    GetTextAttributeIndices(elStart)[i]

RunEndOffset(i) ==
    RunEnd(elStart, GetTextAttributeIndices(elStart), i)

\* the i-th run is underlined, has no link URL and holds a character that is
\* not whitespace
IsPossibleMissingLink(i) ==
    /\ elStart[RunStartOffset(i) + 1].underline
    /\ elStart[RunStartOffset(i) + 1].url = Null
    /\ \E offset \in RunStartOffset(i)..(RunEndOffset(i) - 1) :
          elStart[offset + 1].ch \notin {" ", "TAB"}

\* C18: when checkLinks is over on a document that had no purple in it, a run
\* is purple iff it is underlined, has no link URL and holds a character that
\* is not whitespace, and counts.missingLink is the number of these runs;
\* underlined runs with a link and underlined runs of whitespace only have no
\* purple character.
C18_PurpleIffUnderlinedWithoutLink ==
    pc = "done" =>
        /\ \A i \in RunIndices :
              \A offset \in RunStartOffset(i)..(RunEndOffset(i) - 1) :
                  (el[offset + 1].bg = MISSING_LINK) <=> IsPossibleMissingLink(i)
        /\ counts.missingLink = Cardinality({i \in RunIndices : IsPossibleMissingLink(i)})

\* C18 witness: a run of checkLinks is over on an element of an underlined run
\* of whitespace and an underlined run of text, both without link: the second
\* is purple, the first is not, and one missing link is counted
C18_Witness ==
    /\ pc = "done"
    /\ checks = 1
    /\ Len(elStart) = 2
    /\ elStart[1].ch = " " /\ elStart[1].underline /\ elStart[1].url = Null
    /\ elStart[2].ch = "x" /\ elStart[2].underline /\ elStart[2].url = Null
    /\ el[1].bg # MISSING_LINK
    /\ el[2].bg = MISSING_LINK
    /\ counts.missingLink = 1

\* the highlight of a link of the category: red for broken, yellow for apple,
\* orange for invalid, none for valid and skipped
HighlightOf(type) ==
    CASE type = "broken" -> BROKEN_LINK
      [] type = "apple" -> APPLE_LINK
      [] type = "invalid" -> INVALID_LINK
      [] type \in {"valid", "skipped"} -> NoColor

\* C19: when a run of checkLinks is over, a first one or a later one on the
\* document as the earlier run left it, the background of every link range is
\* the highlight of the category the link got in this run: red iff broken,
\* yellow iff apple, orange iff invalid, none for valid and skipped.
C19_HighlightMatchesClassification ==
    pc = "done" =>
        \A k \in 1..Len(links) :
            RangeBackground(k, HighlightOf(results[k].type))

\* the child has the font, the size and the bold as its element's attributes
HasStyle(child, font, size, bold) ==
    /\ child.font = <<font>>
    /\ child.size = <<size>>
    /\ child.bold = <<bold>>

\* the children of the body, when the run started, that are of the type and
\* heading and did not have the font, size and bold
NotStyledAtStart(type, headings, font, size, bold) ==
    {i \in 1..Len(bodyStart) :
        /\ bodyStart[i].type = type
        /\ bodyStart[i].heading \in headings
        /\ ~HasStyle(bodyStart[i], font, size, bold)}

\* the headings of the model's children
Headings ==
    {"HEADING1", "HEADING2", "NORMAL", "HEADING3", "TITLE", "NONE"}

\* C20: when fixDocumentFormatting is over, every Heading 1 paragraph of the
\* body has Helvetica Neue, 24, bold as its attributes, every Heading 2
\* paragraph Helvetica Neue, 14, bold, every Normal paragraph and every list
\* item Helvetica Neue, 11, not bold; every other child is as it was, and
\* each count is the number of children of its kind that did not have their
\* style when the run started.
C20_FormattingByHeading ==
    fpc = "done" =>
        /\ Len(body) = Len(bodyStart)
        /\ \A i \in 1..Len(body) :
              LET child == body[i]
              IN  /\ child.type = bodyStart[i].type
                  /\ child.heading = bodyStart[i].heading
                  /\ IF child.type = "PARAGRAPH" /\ child.heading = "HEADING1"
                        THEN HasStyle(child, "Helvetica Neue", 24, TRUE)
                     ELSE IF child.type = "PARAGRAPH" /\ child.heading = "HEADING2"
                        THEN HasStyle(child, "Helvetica Neue", 14, TRUE)
                     ELSE IF (child.type = "PARAGRAPH" /\ child.heading = "NORMAL")
                             \/ child.type = "LIST_ITEM"
                        THEN HasStyle(child, "Helvetica Neue", 11, FALSE)
                     ELSE child = bodyStart[i]
        /\ fcounts.h1 = Cardinality(NotStyledAtStart("PARAGRAPH", {"HEADING1"},
                                                     "Helvetica Neue", 24, TRUE))
        /\ fcounts.h2 = Cardinality(NotStyledAtStart("PARAGRAPH", {"HEADING2"},
                                                     "Helvetica Neue", 14, TRUE))
        /\ fcounts.normal = Cardinality(NotStyledAtStart("PARAGRAPH", {"NORMAL"},
                                                         "Helvetica Neue", 11, FALSE))
        /\ fcounts.listItems = Cardinality(NotStyledAtStart("LIST_ITEM", Headings,
                                                            "Helvetica Neue", 11, FALSE))

\* C20 witness: a first run is over on a Heading 1 paragraph that had the
\* right font and bold but size 14 and a Heading 3 paragraph in Arial: the
\* first has size 24 and is counted, the second is in Arial as before
C20_Witness ==
    /\ fpc = "done"
    /\ formats = 1
    /\ Len(body) = 2
    /\ bodyStart[1].type = "PARAGRAPH" /\ bodyStart[1].heading = "HEADING1"
    /\ bodyStart[1].font = <<"Helvetica Neue">>
    /\ bodyStart[1].size = <<14>>
    /\ bodyStart[1].bold = <<TRUE>>
    /\ HasStyle(body[1], "Helvetica Neue", 24, TRUE)
    /\ body[2].heading = "HEADING3"
    /\ body[2].font = <<"Arial">>
    /\ fcounts = [h1 |-> 1, h2 |-> 0, normal |-> 0, listItems |-> 0]
    /\ alert = "Formatting Complete"

\* the i-th child is a Normal paragraph or a list item
IsNormalOrListItem(i) ==
    \/ bodyStart[i].type = "PARAGRAPH" /\ bodyStart[i].heading = "NORMAL"
    \/ bodyStart[i].type = "LIST_ITEM"

\* C21: when fixDocumentFormatting is over, every character of a Normal
\* paragraph or list item that was bold when the run started is bold, also
\* when applyFontFormatting has removed the bold of the element.
C21_CharacterBoldPreserved ==
    fpc = "done" =>
        \A i \in 1..Len(body) :
            IsNormalOrListItem(i) =>
                \A j \in 1..Len(bodyStart[i].charBold) :
                    bodyStart[i].charBold[j] => body[i].charBold[j]

\* the i-th child had, when the run started, the style that
\* fixDocumentFormatting gives to children of its type and heading
StyledAtStart(i) ==
    LET child == bodyStart[i]
    IN  \/ /\ child.type = "PARAGRAPH" /\ child.heading = "HEADING1"
           /\ HasStyle(child, "Helvetica Neue", 24, TRUE)
        \/ /\ child.type = "PARAGRAPH" /\ child.heading = "HEADING2"
           /\ HasStyle(child, "Helvetica Neue", 14, TRUE)
        \/ /\ IsNormalOrListItem(i)
           /\ HasStyle(child, "Helvetica Neue", 11, FALSE)

\* C22: when fixDocumentFormatting is over, a child that had its target font,
\* size and bold when the run started is as it was, characters included, and
\* the counts sum to the number of the other Heading 1, Heading 2 and Normal
\* paragraphs and list items; a run that follows another run leaves the body
\* as it was, counts nothing and shows 'Formatting Check Complete'.
C22_OnlyWhatNeedsChanges ==
    fpc = "done" =>
        /\ \A i \in 1..Len(body) : StyledAtStart(i) => body[i] = bodyStart[i]
        /\ fcounts.h1 + fcounts.h2 + fcounts.normal + fcounts.listItems =
              Cardinality({i \in 1..Len(body) :
                              BranchOf(bodyStart[i]) # "none" /\ ~StyledAtStart(i)})
        /\ formats >= 2 =>
              /\ body = bodyStart
              /\ fcounts = ZeroFormatCounts
              /\ alert = "Formatting Check Complete"

\* C22 witness: a second run is over on a body whose second child is the
\* Heading 1 paragraph that the first run took from Arial 14 to Helvetica
\* Neue 24: nothing is counted and the alert says that no changes were needed
C22_Witness ==
    /\ fpc = "done"
    /\ formats = 2
    /\ Len(body) = 2
    /\ body[2].heading = "HEADING1"
    /\ HasStyle(body[2], "Helvetica Neue", 24, TRUE)
    /\ body = bodyStart
    /\ fcounts = ZeroFormatCounts
    /\ alert = "Formatting Check Complete"

RECURSIVE AfterColonOrDashAt(_, _)
\* afterColonOrDash when the map callback is called for words[index]
AfterColonOrDashAt(words, index) ==
    IF index <= 1 THEN FALSE
    ELSE AfterColonOrDashNext(words, index - 1, AfterColonOrDashAt(words, index - 1))

\* the token holds a word character
HasWordChar(w) ==
    \E x \in 1..Len(w) : IsWordChar(w[x])

\* C23: in the scan of title case, afterColonOrDash is false after every token
\* that holds a word character; so a stop word that comes after a colon and a
\* word-bearing token, with no other colon in between, and that is neither
\* the first nor the last word, is lower-cased.
C23_FlagClearedByWordToken ==
    Ran("title") =>
        LET words == Split(selectedText)
        IN  /\ \A index \in 1..Len(words) :
                  HasWordChar(words[index]) => ~AfterColonOrDashAt(words, index + 1)
            /\ \A c \in 1..Len(selectedText), k \in 1..Len(selectedText) :
                  ( /\ selectedText[c] = ":"
                    /\ c < k
                    /\ \A x \in (c + 1)..k : selectedText[x] # ":"
                    /\ StartsWord(selectedText, k)
                    /\ IsPlainWordToken(selectedText, k)
                    /\ IsStopWordAt(selectedText, k)
                    /\ IsInteriorWord(selectedText, k)
                    /\ \E x \in (c + 1)..(TokenStart(selectedText, k) - 1) :
                          IsWordChar(selectedText[x]) )
                  => LowercasedAt(selectedText, transformedText, k)

\* the token with its core, from its first to its last word character, put
\* in lower case, and with the first character of the core capitalized too
LowerCasedToken(w) ==
    SubSeq(w, 1, FirstWordIndex(w) - 1)
    \o ToLowerCase(SubSeq(w, FirstWordIndex(w), LastWordIndex(w)))
    \o SubSeq(w, LastWordIndex(w) + 1, Len(w))

CapitalizedToken(w) ==
    LET lower == LowerCasedToken(w)
        a == FirstWordIndex(w)
    IN  SubSeq(lower, 1, a - 1) \o ToUpperCase(<<lower[a]>>) \o SubSeq(lower, a + 1, Len(lower))

\* C24: title case emits every token that holds a word character as its
\* leading punctuation, its core in lower case or capitalized, and its
\* trailing punctuation, also when the core has punctuation inside it; every
\* other token is emitted as it is.
C24_WordTokensRecased ==
    Ran("title") =>
        LET words == Split(selectedText)
            emitted == Split(transformedText)
        IN  /\ Len(emitted) = Len(words)
            /\ \A index \in 1..Len(words) :
                  IF HasWordChar(words[index])
                     THEN emitted[index] \in {LowerCasedToken(words[index]),
                                              CapitalizedToken(words[index])}
                     ELSE emitted[index] = words[index]

\* startOffset and endOffset (inclusive) of the range that the menu item ran on
RangeStart ==
    IF selection = "partial" THEN selStart ELSE 0

RangeEnd ==
    IF selection = "partial" THEN selEnd ELSE Len(before) - 1

\* the offsets j of the range at which the loop finds originalChar # newChar
\* and issues deleteText and insertText
EditedOffsets ==
    {j \in 0..(RangeEnd - RangeStart) : CharAt(selectedText, j) # CharAt(transformedText, j)}

\* C25: processSelectedText edits only inside the selected range and only
\* where the transformed character differs from the original one: the text
\* keeps its length, every character outside the range keeps its position and
\* value, and no edit is issued when the transform returns its input.
C25_EditsOnlyInsideRange ==
    lastOp # "none" =>
        /\ Len(text) = Len(before)
        /\ \A i \in 1..Len(before) :
              (i - 1 < RangeStart \/ i - 1 > RangeEnd) => text[i] = before[i]
        /\ \A i \in 1..Len(before) :
              text[i] # before[i] => (i - 1 - RangeStart) \in EditedOffsets
        /\ transformedText = selectedText => (EditedOffsets = {} /\ text = before)

\* C25 witness: upper case ran on a range strictly inside the text, whose
\* transform is longer than the selection, and changed the text
C25_Witness ==
    /\ Ran("upper")
    /\ selection = "partial"
    /\ RangeStart > 0
    /\ RangeEnd < Len(before) - 1
    /\ Len(transformedText) > Len(selectedText)
    /\ text # before

\* C26: after processSelectedText(transformFn) the text of the selected range
\* is transformFn(original selected text), also when a character's upper- or
\* lower-case form has another length.
C26_RangeHoldsTransform ==
    lastOp # "none" =>
        /\ transformedText = TransformFn(lastOp, selectedText)
        /\ \E last \in (RangeStart - 1)..(Len(text) - 1) :
              /\ Substring(text, RangeStart, last + 1) = transformedText
              /\ Slice(text, last + 1) = Slice(before, RangeEnd + 1)

\* C28: the transform of title case is idempotent
C28_TitleCaseIdempotent ==
    Ran("title") => TitleCaseFn(transformedText) = transformedText

\* C28 witness: title case ran on a text with a colon and changed it
C28_Witness ==
    /\ Ran("title")
    /\ \E i \in 1..Len(selectedText) : selectedText[i] = ":"
    /\ transformedText # selectedText

\* position p of the element as checkLinks found it is a linked space inside
\* a contiguous linked span: characters of the same URL lead from a linked
\* character that is no space before it to one after it
IsInteriorLinkedSpace(p) ==
    /\ elStart[p].ch = " "
    /\ elStart[p].url # Null
    /\ \E a \in 1..(p - 1), b \in (p + 1)..Len(elStart) :
          /\ elStart[a].ch # " "
          /\ elStart[b].ch # " "
          /\ \A x \in a..b : elStart[x].url = elStart[p].url

\* C27: the trim pass takes the link only from the spaces at the very start
\* or the very end of a contiguous linked span: a space inside the span stays
\* linked and underlined, also when the span is made of several attribute runs.
C27_InteriorSpaceStaysLinked ==
    \A p \in 1..Len(elStart) :
        IsInteriorLinkedSpace(p) =>
            /\ el[p].url = elStart[p].url
            /\ elStart[p].underline => el[p].underline

\* the calls of the fetch that this run made for its k-th link
FetchesFor(k) ==
    {f \in 1..Len(fetchLog) : fetchLog[f].link = k}

\* C29: in a run of checkLinks the fetch is called exactly once for each link
\* range whose URL, in lower case, starts with http:// or https://, apple.com
\* or not, with the range's URL; it is called for no other range, and for none
\* while the trim pass is going on.
C29_FetchOncePerHttpLink ==
    /\ pc = "trim" => (fetchLog = <<>> /\ results = <<>>)
    /\ \A f \in 1..Len(fetchLog) :
          /\ fetchLog[f].link \in 1..Len(results)
          /\ fetchLog[f].url = links[fetchLog[f].link].url
    /\ \A k \in 1..Len(results) :
          Cardinality(FetchesFor(k)) =
              IF HasHttpPrefix(ToLowerCase(links[k].url)) THEN 1 ELSE 0
    /\ pc = "done" => Len(results) = Len(links)

\* C29 witness: a run is over in which the first link, an apple.com one, and
\* the second, an https one, were fetched once each after a trim pass that
\* trimmed a link
C29_Witness ==
    /\ pc = "done"
    /\ Len(links) = 2
    /\ HoldsAppleCom(ToLowerCase(links[1].url))
    /\ Len(fetchLog) = 2
    /\ counts.spacesTrimmed > 0

\* the links of this run that processLinkValidation has put in the category
LinksOfType(type) ==
    {k \in 1..Len(results) : results[k].type = type}

\* the link ranges whose background is the colour
LinksHighlighted(colour) ==
    {k \in 1..Len(links) : RangeBackground(k, colour)}

\* the value is a number: neither undefined nor NaN
IsCount(v) ==
    v \notin {"undefined", "NaN"}

\* C30: each link range that checkLinks has processed is counted in exactly
\* one of broken, apple, skipped, invalid and valid; broken + apple + skipped
\* + invalid is at most the number of link ranges; when the run is over,
\* broken, apple and invalid are the numbers of link ranges whose background
\* is red, yellow and orange.
C30_CountersMatchLinks ==
    /\ counts.broken = Cardinality(LinksOfType("broken"))
    /\ counts.apple = Cardinality(LinksOfType("apple"))
    /\ counts.skipped = Cardinality(LinksOfType("skipped"))
    /\ counts.invalid = Cardinality(LinksOfType("invalid"))
    /\ LinksOfType("valid") # {} => IsCount(counts.valid)
    /\ counts.broken + counts.apple + counts.skipped + counts.invalid <= Len(links)
    /\ pc = "done" =>
          /\ counts.broken = Cardinality(LinksHighlighted(BROKEN_LINK))
          /\ counts.apple = Cardinality(LinksHighlighted(APPLE_LINK))
          /\ counts.invalid = Cardinality(LinksHighlighted(INVALID_LINK))

====
